---- MODULE Spec2Model ----
(***************************************************************************)
(* A model of upcc.py: the card-brand classifier card_brand_type, the      *)
(* Luhn check digit luhn_checksum, the two card generators                 *)
(* random_cc_as_string and random_bin_cc, and the /auth + button flow      *)
(* over pending_auth.                                                      *)
(*                                                                         *)
(* Python strings are sequences of one-character strings; a list of ints   *)
(* is a sequence of integers.  A call's outcome is a record                *)
(* [raised, exc, value]: a return (raised = FALSE) or an exception.        *)
(***************************************************************************)
EXTENDS Integers, Sequences, FiniteSets

VARIABLES
    pc,            \* where the caller of a modelled function stands
    op,            \* the function called
    arg,           \* its argument
    ret,           \* its outcome
    pending_auth,  \* self.pending_auth: user id -> card string
    submitted,     \* history: the card each user last stored with /auth
    checks,        \* history: auth checks run for a user since that /auth
    reply          \* the outcome of the last handler run

vars == <<pc, op, arg, ret, pending_auth, submitted, checks, reply>>

---------------------------------------------------------------------------
(* Bounds of the model.                                                    *)

\* longest freely chosen head of a classifier input
MaxHeadLen == 4
\* longest digit list handed to luhn_checksum on its own
MaxLuhnLen == 4
\* longest prefix handed to random_bin_cc
MaxPrefixLen == 7
\* seeds of the random sources' outcome tapes are 0..MaxSeed
MaxSeed == 2
\* auth checks counted per stored card before the model stops pressing
MaxChecks == 2
\* users of the group are 1..NumUsers
NumUsers == 2

---------------------------------------------------------------------------
(* Python primitives.                                                      *)

Min(a, b) == IF a <= b THEN a ELSE b

DigitChars == <<"0", "1", "2", "3", "4", "5", "6", "7", "8", "9">>

IsDigitChar(c) == \E i \in 1..Len(DigitChars) : DigitChars[i] = c

\* str(d) of one decimal digit
str_digit(d) == DigitChars[d + 1]

\* int(c) of a one-character string; the caller checks IsDigitChar first
int_char(c) == (CHOOSE i \in 1..Len(DigitChars) : DigitChars[i] = c) - 1

\* int(s) raises ValueError on "" and on any non-digit character
int_raises(s) == Len(s) = 0 \/ \E i \in 1..Len(s) : ~IsDigitChar(s[i])

RECURSIVE int_str(_)
int_str(s) ==
    IF Len(s) = 0 THEN 0
    ELSE int_str(SubSeq(s, 1, Len(s) - 1)) * 10 + int_char(s[Len(s)])

\* s[:n]
Take(s, n) == SubSeq(s, 1, Min(n, Len(s)))

\* s.startswith(p), and s.startswith((p1, p2, ...))
startswith(s, p) == Len(s) >= Len(p) /\ SubSeq(s, 1, Len(p)) = p

startswith_any(s, ps) == \E p \in ps : startswith(s, p)

Returned(v) == [raised |-> FALSE, exc |-> "", value |-> v]

Raised(e) == [raised |-> TRUE, exc |-> e, value |-> <<>>]

NoResult == [raised |-> FALSE, exc |-> "", value |-> <<>>]

---------------------------------------------------------------------------
(* card_brand_type                                                         *)

EMOJIS == [visa       |-> "blue-square VISA",
           mastercard |-> "red-square MC",
           amex       |-> "green-square AMEX",
           discover   |-> "yellow-square DISC",
           diners     |-> "plate DINERS",
           jcb        |-> "purple-square JCB",
           unionpay   |-> "flag-cn UPay",
           mir        |-> "flag-ru MIR",
           unknown    |-> "card CARD"]

McLow == 2221
McHigh == 2720

McPrefixes == {<<"5", "1">>, <<"5", "2">>, <<"5", "3">>, <<"5", "4">>, <<"5", "5">>}

AmexPrefixes == {<<"3", "4">>, <<"3", "7">>}

DinersPrefixes == {<<"3", "0", "0">>, <<"3", "0", "1">>, <<"3", "0", "2">>,
                   <<"3", "0", "3">>, <<"3", "0", "4">>, <<"3", "0", "5">>,
                   <<"3", "6">>, <<"3", "8">>, <<"3", "9">>}

\* 2221 <= int(cc[:4]) <= 2720, evaluated once the startswith test failed
InMcRangeStrict(cc) == McLow < int_str(Take(cc, 4)) /\ int_str(Take(cc, 4)) < McHigh

InMcRange(cc) == McLow <= int_str(Take(cc, 4)) /\ int_str(Take(cc, 4)) <= McHigh

\* the rules after the Mastercard test, in the order of the source
BrandAfterMcUnionFirst(cc) ==
    IF startswith_any(cc, AmexPrefixes) THEN <<EMOJIS.amex, "AMEX">>
    ELSE IF startswith(cc, <<"6", "2">>) THEN <<EMOJIS.unionpay, "UNIONPAY">>
    ELSE IF startswith(cc, <<"6">>) THEN <<EMOJIS.discover, "DISCOVER">>
    ELSE IF startswith_any(cc, DinersPrefixes) THEN <<EMOJIS.diners, "DINERS">>
    ELSE IF startswith(cc, <<"3", "5">>) THEN <<EMOJIS.jcb, "JCB">>
    ELSE IF startswith(cc, <<"2", "2", "0">>) THEN <<EMOJIS.mir, "MIR">>
    ELSE <<EMOJIS.unknown, "UNKNOWN">>

BrandAfterMc(cc) ==
    IF startswith_any(cc, AmexPrefixes) THEN <<EMOJIS.amex, "AMEX">>
    ELSE IF startswith(cc, <<"6">>) THEN <<EMOJIS.discover, "DISCOVER">>
    ELSE IF startswith_any(cc, DinersPrefixes) THEN <<EMOJIS.diners, "DINERS">>
    ELSE IF startswith(cc, <<"3", "5">>) THEN <<EMOJIS.jcb, "JCB">>
    ELSE IF startswith(cc, <<"6", "2">>) THEN <<EMOJIS.unionpay, "UNIONPAY">>
    ELSE IF startswith(cc, <<"2", "2", "0">>) THEN <<EMOJIS.mir, "MIR">>
    ELSE <<EMOJIS.unknown, "UNKNOWN">>

\* the whole function: `or` evaluates int(cc[:4]) only when no 51..55 prefix
\* matched, and that int() raises ValueError on a non-number
card_brand_type(cc) ==
    IF startswith(cc, <<"4">>) THEN Returned(<<EMOJIS.visa, "VISA">>)
    ELSE IF startswith_any(cc, McPrefixes)
         THEN Returned(<<EMOJIS.mastercard, "MASTERCARD">>)
    ELSE IF int_raises(Take(cc, 4)) THEN Raised("ValueError")
    ELSE IF InMcRange(cc) THEN Returned(<<EMOJIS.mastercard, "MASTERCARD">>)
    ELSE Returned(BrandAfterMc(cc))

---------------------------------------------------------------------------
(* luhn_checksum                                                           *)

\* digits[:] reversed
Reversed(s) == [i \in 1..Len(s) |-> s[Len(s) + 1 - i]]

\* the loop body for enumerate index i and digit d
LuhnStep(i, d) ==
    IF i % 2 = 0 THEN d
    ELSE IF d * 2 > 9 THEN d * 2 - 9 ELSE d * 2

\* total after the first n iterations over the reversed list r
RECURSIVE LuhnTotal(_, _)
LuhnTotal(r, n) ==
    IF n = 0 THEN 0 ELSE LuhnTotal(r, n - 1) + LuhnStep(n - 1, r[n])

luhn_checksum(digits) ==
    (10 - (LuhnTotal(Reversed(digits), Len(digits)) % 10)) % 10

---------------------------------------------------------------------------
(* The random sources.  Each call draws from an outcome tape: the k-th     *)
(* draw (k = 0, 1, ...) of the tape with seed s is an integer reduced to   *)
(* the range the call asks for.  Seeds range over 0..MaxSeed, so that      *)
(* every decimal digit occurs among the draws.                             *)

Seeds == 0..MaxSeed

Raw(seed, k) == seed * (k + 1)

\* secrets.randbelow(n), random.randint(0, n - 1)
randbelow(seed, k, n) == Raw(seed, k) % n

\* random.randint(lo, hi)
randint(seed, k, lo, hi) == lo + (Raw(seed, k) % (hi - lo + 1))

---------------------------------------------------------------------------
(* random_cc_bin_and_length, random_cc_as_string                           *)

brands == << <<(<<"4">>), 16, "visa">>,
             <<(<<"5", "1">>), 16, "mastercard">>,
             <<(<<"5", "2">>), 16, "mastercard">>,
             <<(<<"5", "3">>), 16, "mastercard">>,
             <<(<<"5", "4">>), 16, "mastercard">>,
             <<(<<"5", "5">>), 16, "mastercard">>,
             <<(<<"2", "2", "2", "1">>), 16, "mastercard">>,
             <<(<<"2", "7", "2", "0">>), 16, "mastercard">>,
             <<(<<"3", "4">>), 15, "amex">>,
             <<(<<"3", "7">>), 15, "amex">>,
             <<(<<"6", "0", "1", "1">>), 16, "discover">>,
             <<(<<"6", "5">>), 16, "discover">>,
             <<(<<"3", "5">>), 16, "jcb">>,
             <<(<<"6", "2">>), 16, "unionpay">> >>

BinLen == 6

\* the table entry chosen by random.choice, its prefix padded to six
\* characters with secrets.choice("0123456789"): draws 0.. of the secrets tape
random_cc_bin_and_length(entry, sseed) ==
    LET prefix == brands[entry][1]
        pad    == [j \in 1..(BinLen - Len(prefix)) |->
                      DigitChars[1 + randbelow(sseed, j - 1, 10)]]
    IN  IF Len(prefix) < BinLen
        THEN <<prefix \o pad, brands[entry][2], brands[entry][3]>>
        ELSE brands[entry]

\* cc_list after the while loop: seed digits, then draws first, first + 1, ...
\* of the tape until the list has length - 1 entries
FillTo(cc_list, length, seed, first) ==
    [i \in 1..(IF Len(cc_list) < length - 1 THEN length - 1 ELSE Len(cc_list)) |->
        IF i <= Len(cc_list) THEN cc_list[i]
        ELSE randbelow(seed, first + (i - Len(cc_list)) - 1, 10)]

\* "".join(str(x) for x in cc_list)
join_digits(cc_list) == [i \in 1..Len(cc_list) |-> str_digit(cc_list[i])]

\* f"{m:02d}" and f"{y}" of a number below 100
fmt_02d(m) == <<str_digit(m \div 10), str_digit(m % 10)>>

fmt_d(y) == IF y < 10 THEN <<str_digit(y)>> ELSE fmt_02d(y)

\* exp_month, exp_year and cvv from draws first, first + 1, ... of random
ExpiryAndCvv(cvv_len, rseed, first) ==
    <<"|">> \o fmt_02d(randint(rseed, first, 1, 12))
    \o <<"|">> \o fmt_d(randint(rseed, first + 1, 24, 30))
    \o <<"|">> \o [j \in 1..cvv_len |-> str_digit(randint(rseed, first + 1 + j, 0, 9))]

cvv_len_of_brand_upper(brand) == IF brand = "AMEX" THEN 4 ELSE 3

cvv_len_of_brand(brand) == IF brand = "amex" THEN 4 ELSE 3

random_cc_as_string(entry, sseed, rseed) ==
    LET t        == random_cc_bin_and_length(entry, sseed)
        bin6     == t[1]
        length   == t[2]
        brand    == t[3]
        npad     == IF Len(brands[entry][1]) < BinLen
                    THEN BinLen - Len(brands[entry][1]) ELSE 0
        seedlist == [i \in 1..Len(bin6) |-> int_char(bin6[i])]
        cc_list  == FillTo(seedlist, length, sseed, npad)
        checksum == luhn_checksum(cc_list)
        cc_number == join_digits(Append(cc_list, checksum))
    IN  cc_number \o ExpiryAndCvv(cvv_len_of_brand(brand), rseed, 0)

---------------------------------------------------------------------------
(* random_bin_cc                                                           *)

truncate7(bin6) == Take(bin6, BinLen + 1)

\* str(bin6)[:6]
truncate6(bin6) == Take(bin6, BinLen)

pad6_left(bin6) == [j \in 1..(BinLen - Len(bin6)) |-> "0"] \o bin6

\* while len(bin6) < 6: bin6 += "0"
pad6(bin6) == bin6 \o [j \in 1..(BinLen - Len(bin6)) |-> "0"]

bin_length_34(bin6) == IF startswith(bin6, <<"3", "4">>) THEN 15 ELSE 16

bin_length(bin6) == IF startswith_any(bin6, AmexPrefixes) THEN 15 ELSE 16

bin_cvv_len(bin6) == IF startswith_any(bin6, AmexPrefixes) THEN 4 ELSE 3

\* list(map(int, bin6)) raises ValueError on the first non-digit character
map_int_raises(bin6) == \E i \in 1..Len(bin6) : ~IsDigitChar(bin6[i])

random_bin_cc(prefix, rseed) ==
    LET bin6     == pad6(truncate6(prefix))
        length   == bin_length(bin6)
        seedlist == [i \in 1..Len(bin6) |-> int_char(bin6[i])]
        cc_list  == FillTo(seedlist, length, rseed, 0)
        nfill    == Len(cc_list) - Len(seedlist)
        checksum == luhn_checksum(cc_list)
        cc_number == join_digits(Append(cc_list, checksum))
    IN  IF map_int_raises(bin6) THEN Raised("ValueError")
        ELSE Returned(cc_number \o ExpiryAndCvv(bin_cvv_len(bin6), rseed, nfill))

\* s.split(sep)
RECURSIVE split(_, _)
split(s, sep) ==
    IF \A i \in 1..Len(s) : s[i] # sep THEN <<s>>
    ELSE LET i == CHOOSE k \in 1..Len(s) :
                     s[k] = sep /\ \A m \in 1..(k - 1) : s[m] # sep
         IN  <<SubSeq(s, 1, i - 1)>> \o split(SubSeq(s, i + 1, Len(s)), sep)

---------------------------------------------------------------------------
(* The generators called by a caller that takes each result in turn.       *)

PrefixChars == {"3", "4", "7", "a"}

Prefixes == UNION {[1..n -> PrefixChars] : n \in 0..MaxPrefixLen}

InitGen ==
    /\ pc = "idle"
    /\ op = ""
    /\ arg = <<>>
    /\ ret = NoResult
    /\ pending_auth = <<>>
    /\ submitted = <<>>
    /\ checks = <<>>
    /\ reply = <<>>

RandomCcAsString ==
    /\ pc = "idle"
    /\ \E entry \in 1..Len(brands), sseed \in Seeds, rseed \in Seeds :
          ret' = Returned(random_cc_as_string(entry, sseed, rseed))
    /\ op' = "random_cc_as_string"
    /\ arg' = <<>>
    /\ pc' = "returned"
    /\ UNCHANGED <<pending_auth, submitted, checks, reply>>

RandomBinCc ==
    /\ pc = "idle"
    /\ \E prefix \in Prefixes, rseed \in Seeds :
          /\ ret' = random_bin_cc(prefix, rseed)
          /\ arg' = prefix
    /\ op' = "random_bin_cc"
    /\ pc' = "returned"
    /\ UNCHANGED <<pending_auth, submitted, checks, reply>>

\* the caller has the card, or the exception, and is ready for the next call
TakeResult ==
    /\ pc = "returned"
    /\ pc' = "idle"
    /\ op' = ""
    /\ arg' = <<>>
    /\ ret' = NoResult
    /\ UNCHANGED <<pending_auth, submitted, checks, reply>>

NextGen == RandomCcAsString \/ RandomBinCc \/ TakeResult

SpecGen == InitGen /\ [][NextGen]_vars

---------------------------------------------------------------------------
(* Properties of the generators.                                           *)

IsAllDigits(s) == \A i \in 1..Len(s) : IsDigitChar(s[i])

\* the fields of a returned "number|mm|yy|cvv" string
NumberOf(r) == split(r.value, "|")[1]

CvvOf(r) == split(r.value, "|")[4]

CardReturned == pc = "returned" /\ ~ret.raised

\* Luhn validation of a digit string: from the right, the rightmost digit and
\* every second digit after it unchanged, the others doubled (minus 9 when
\* the double exceeds 9); the sum is 0 mod 10
LuhnDoubled(d) == IF 2 * d > 9 THEN 2 * d - 9 ELSE 2 * d

RECURSIVE LuhnSum(_)
LuhnSum(ds) ==
    IF Len(ds) = 0 THEN 0
    ELSE IF Len(ds) = 1 THEN ds[1]
    ELSE LuhnSum(SubSeq(ds, 1, Len(ds) - 2))
         + LuhnDoubled(ds[Len(ds) - 1]) + ds[Len(ds)]

LuhnValid(ds) == LuhnSum(ds) % 10 = 0

DigitsOf(s) == [i \in 1..Len(s) |-> int_char(s[i])]

StartsAmex(n) == Take(n, 2) \in {<<"3", "4">>, <<"3", "7">>}

LabelOf(n) == card_brand_type(n).value[2]

\* C1: every card number returned by random_cc_as_string and by
\* random_bin_cc passes Luhn validation.
C1_GeneratedPassesLuhn ==
    CardReturned => LuhnValid(DigitsOf(NumberOf(ret)))

\* C3: a card from random_cc_as_string, or from random_bin_cc with an
\* all-digit prefix, has 15 or 16 digits, and 15 exactly when it is AMEX:
\* it starts with 34 or 37 and card_brand_type labels it AMEX.
C3_LengthIffAmex ==
    (CardReturned /\ (op = "random_cc_as_string" \/ IsAllDigits(arg))) =>
        LET n == NumberOf(ret)
        IN  /\ Len(n) \in {15, 16}
            /\ IsAllDigits(n)
            /\ (Len(n) = 15) <=> StartsAmex(n)
            /\ ~card_brand_type(n).raised
            /\ (Len(n) = 15) <=> (LabelOf(n) = "AMEX")

\* a 15-digit card returned for a 7-digit prefix, and so a truncated one
C3_Witness ==
    /\ CardReturned
    /\ op = "random_bin_cc"
    /\ IsAllDigits(arg)
    /\ Len(arg) = 7
    /\ Len(NumberOf(ret)) = 15

\* C4: the CVV of every generated card has 4 digits exactly when
\* card_brand_type labels the generated number AMEX, and 3 otherwise.
C4_CvvLengthIffAmex ==
    CardReturned =>
        LET n == NumberOf(ret)
        IN  /\ ~card_brand_type(n).raised
            /\ IsAllDigits(CvvOf(ret))
            /\ Len(CvvOf(ret)) = (IF LabelOf(n) = "AMEX" THEN 4 ELSE 3)

\* a 4-digit CVV on a card of the random generator
C4_Witness ==
    /\ CardReturned
    /\ op = "random_cc_as_string"
    /\ Len(CvvOf(ret)) = 4

\* the prefix as the claim normalises it: the first six characters, or the
\* prefix right-padded with "0" to six
ExpectedBin(p) ==
    IF Len(p) >= 6 THEN SubSeq(p, 1, 6)
    ELSE [i \in 1..6 |-> IF i <= Len(p) THEN p[i] ELSE "0"]

\* C8: for an all-digit prefix the number returned by random_bin_cc begins
\* with the normalised six-digit prefix; prefix "34" gives a number starting
\* 340000, of 15 digits, with a 4-digit CVV.
C8_BeginsWithNormalizedPrefix ==
    (CardReturned /\ op = "random_bin_cc" /\ IsAllDigits(arg)) =>
        /\ SubSeq(NumberOf(ret), 1, 6) = ExpectedBin(arg)
        /\ arg = <<"3", "4">> =>
              /\ SubSeq(NumberOf(ret), 1, 6) = <<"3", "4", "0", "0", "0", "0">>
              /\ Len(NumberOf(ret)) = 15
              /\ Len(CvvOf(ret)) = 4

\* the card returned for prefix "34"
C8_Witness ==
    /\ CardReturned
    /\ op = "random_bin_cc"
    /\ arg = <<"3", "4">>

HasNonDigit(s) == \E i \in 1..Len(s) : ~IsDigitChar(s[i])

\* C9 as claimed: random_bin_cc with any prefix that contains a non-digit
\* character fails with an invalid-input error and returns no card.
C9_AnyNonDigitFails ==
    (pc = "returned" /\ op = "random_bin_cc" /\ HasNonDigit(arg)) =>
        ret = Raised("ValueError")

\* C9 as amended: random_bin_cc fails with ValueError, returning no card,
\* exactly when a non-digit character is among the first six characters of
\* the prefix; later characters are cut off before the digits are converted.
C9_FailsIffNonDigitInFirstSix ==
    (pc = "returned" /\ op = "random_bin_cc") =>
        /\ HasNonDigit(SubSeq(arg, 1, Min(6, Len(arg)))) <=> ret.raised
        /\ ret.raised => ret = Raised("ValueError")
        /\ ~ret.raised => Len(split(ret.value, "|")) = 4

\* the call with prefix "3a4" has failed
C9_Witness ==
    /\ pc = "returned"
    /\ op = "random_bin_cc"
    /\ arg = <<"3", "a", "4">>
    /\ ret.raised

---------------------------------------------------------------------------
(* luhn_checksum called on its own.                                        *)

Digits == 0..9

DigitLists == UNION {[1..n -> Digits] : n \in 0..MaxLuhnLen}

InitLuhn ==
    /\ pc = "call"
    /\ op = "luhn_checksum"
    /\ arg \in DigitLists
    /\ ret = NoResult
    /\ pending_auth = <<>>
    /\ submitted = <<>>
    /\ checks = <<>>
    /\ reply = <<>>

LuhnChecksum ==
    /\ pc = "call"
    /\ op = "luhn_checksum"
    /\ ret' = Returned(luhn_checksum(arg))
    /\ pc' = "done"
    /\ UNCHANGED <<op, arg, pending_auth, submitted, checks, reply>>

NextLuhn == LuhnChecksum

SpecLuhn == InitLuhn /\ [][NextLuhn]_vars

\* C2: appending luhn_checksum(d) to a digit sequence d of length >= 1
\* yields a sequence that passes Luhn validation.
C2_AppendedChecksumValid ==
    (pc = "done" /\ op = "luhn_checksum" /\ Len(arg) >= 1) =>
        LuhnValid(Append(arg, ret.value))

---------------------------------------------------------------------------
(* card_brand_type called on its own: on every digit string of up to       *)
(* MaxHeadLen characters, and on each of them continued to 16 characters   *)
(* with one repeated digit.                                                *)

CardLen == 16

DigitCharSet == {DigitChars[i] : i \in 1..Len(DigitChars)}

Heads == UNION {[1..n -> DigitCharSet] : n \in 0..MaxHeadLen}

BrandInputs ==
    Heads \cup {h \o [j \in 1..(CardLen - Len(h)) |-> c] : h \in Heads, c \in {"0", "9"}}

InitBrand ==
    /\ pc = "call"
    /\ op = "card_brand_type"
    /\ arg \in BrandInputs
    /\ ret = NoResult
    /\ pending_auth = <<>>
    /\ submitted = <<>>
    /\ checks = <<>>
    /\ reply = <<>>

CardBrandType ==
    /\ pc = "call"
    /\ op = "card_brand_type"
    /\ ret' = card_brand_type(arg)
    /\ pc' = "done"
    /\ UNCHANGED <<op, arg, pending_auth, submitted, checks, reply>>

NextBrand == CardBrandType

SpecBrand == InitBrand /\ [][NextBrand]_vars

Classified == pc = "done" /\ op = "card_brand_type"

\* the claim's rules, by number
RuleMatches(k, cc) ==
    CASE k = 1 -> Take(cc, 1) = <<"4">>
      [] k = 2 -> \/ Take(cc, 2) \in {<<"5", "1">>, <<"5", "2">>, <<"5", "3">>,
                                      <<"5", "4">>, <<"5", "5">>}
                  \/ int_str(Take(cc, 4)) \in 2221..2720
      [] k = 3 -> Take(cc, 2) \in {<<"3", "4">>, <<"3", "7">>}
      [] k = 4 -> Take(cc, 1) = <<"6">>
      [] k = 5 -> \/ Take(cc, 3) \in {<<"3", "0", "0">>, <<"3", "0", "1">>,
                                      <<"3", "0", "2">>, <<"3", "0", "3">>,
                                      <<"3", "0", "4">>, <<"3", "0", "5">>}
                  \/ Take(cc, 2) \in {<<"3", "6">>, <<"3", "8">>, <<"3", "9">>}
      [] k = 6 -> Take(cc, 2) = <<"3", "5">>
      [] k = 7 -> Take(cc, 2) = <<"6", "2">>
      [] k = 8 -> Take(cc, 3) = <<"2", "2", "0">>
      [] OTHER -> TRUE

RuleResult == << <<EMOJIS.visa, "VISA">>, <<EMOJIS.mastercard, "MASTERCARD">>,
                 <<EMOJIS.amex, "AMEX">>, <<EMOJIS.discover, "DISCOVER">>,
                 <<EMOJIS.diners, "DINERS">>, <<EMOJIS.jcb, "JCB">>,
                 <<EMOJIS.unionpay, "UNIONPAY">>, <<EMOJIS.mir, "MIR">>,
                 <<EMOJIS.unknown, "UNKNOWN">> >>

FirstMatch(cc) ==
    CHOOSE k \in 1..Len(RuleResult) :
        RuleMatches(k, cc) /\ \A j \in 1..(k - 1) : ~RuleMatches(j, cc)

\* C5: on a non-empty digit string card_brand_type returns the (glyph,
\* label) of the first matching rule in the order VISA, MASTERCARD, AMEX,
\* DISCOVER, DINERS, JCB, UNIONPAY, MIR, else UNKNOWN; an input starting
\* with 62 is DISCOVER and UNIONPAY is never returned.
C5_FirstMatchingRule ==
    (Classified /\ Len(arg) >= 1 /\ IsAllDigits(arg)) =>
        /\ ret = Returned(RuleResult[FirstMatch(arg)])
        /\ Take(arg, 2) = <<"6", "2">> => ret.value[2] = "DISCOVER"
        /\ ret.value[2] # "UNIONPAY"

\* a 16-digit input starting with 62 has been classified
C5_Witness ==
    /\ Classified
    /\ Len(arg) = CardLen
    /\ Take(arg, 2) = <<"6", "2">>
    /\ ret.value = <<EMOJIS.discover, "DISCOVER">>

\* C6: a 16-digit string whose first four digits are 2221 or 2720 is
\* MASTERCARD; a digit string starting with 2219 or 2721 is UNKNOWN.
C6_MastercardRangeEnds ==
    Classified =>
        /\ (Len(arg) = CardLen /\ Take(arg, 4) \in {<<"2", "2", "2", "1">>,
                                                    <<"2", "7", "2", "0">>})
              => ret = Returned(<<EMOJIS.mastercard, "MASTERCARD">>)
        /\ (Take(arg, 4) \in {<<"2", "2", "1", "9">>, <<"2", "7", "2", "1">>})
              => ret = Returned(<<EMOJIS.unknown, "UNKNOWN">>)

\* "2720000000000000" has been classified
C6_Witness ==
    /\ Classified
    /\ arg = <<"2", "7", "2", "0">> \o [j \in 1..12 |-> "0"]
    /\ ~ret.raised

\* C7: card_brand_type of the empty string returns the UNKNOWN pair and
\* raises no error.
C7_EmptyIsUnknown ==
    (Classified /\ arg = <<>>) => ret = Returned(<<EMOJIS.unknown, "UNKNOWN">>)

---------------------------------------------------------------------------
(* The mock authorisations and full_auth_check.                            *)

\* sum(int(d) for d in cc if d.isdigit())
RECURSIVE digit_sum(_)
digit_sum(cc) ==
    IF Len(cc) = 0 THEN 0
    ELSE digit_sum(SubSeq(cc, 1, Len(cc) - 1))
         + (IF IsDigitChar(cc[Len(cc)]) THEN int_char(cc[Len(cc)]) ELSE 0)

\* int(cc[-1]) % 2 == 0; IndexError and ValueError end in the bare except
mock_basic_auth(cc) ==
    IF Len(cc) < 1 \/ ~IsDigitChar(cc[Len(cc)]) THEN "ERROR"
    ELSE IF int_char(cc[Len(cc)]) % 2 = 0 THEN "APPROVED" ELSE "DECLINED"

mock_b3_auth(cc) ==
    IF digit_sum(cc) % 3 = 0 THEN "3DS AUTHORIZED" ELSE "3DS FAILED"

\* int(cc[-2]) % 2 == 1
mock_stripe_auth(cc) ==
    IF Len(cc) < 2 \/ ~IsDigitChar(cc[Len(cc) - 1]) THEN "ERROR"
    ELSE IF int_char(cc[Len(cc) - 1]) % 2 = 1
         THEN "Stripe AUTHORIZED" ELSE "Stripe DECLINED"

\* random.random() > 0.4
mock_paypal_auth(above) ==
    IF above THEN "PayPal AUTHORIZED" ELSE "PayPal DECLINED"

mock_bank_auth(cc) ==
    IF digit_sum(cc) % 7 = 0 THEN "Bank DECLINED" ELSE "Bank APPROVED"

\* the five checks are gathered, then card_brand_type(cc) is called: its
\* ValueError leaves full_auth_check after the checks have run
full_auth_check(card_str, above) ==
    LET cc     == split(card_str, "|")[1]
        report == <<mock_basic_auth(cc), mock_b3_auth(cc), mock_stripe_auth(cc),
                    mock_paypal_auth(above), mock_bank_auth(cc)>>
        brand  == card_brand_type(cc)
    IN  IF brand.raised THEN Raised(brand.exc)
        ELSE Returned(<<report, brand.value[1], brand.value[2]>>)

---------------------------------------------------------------------------
(* /auth and the check_all_auths button.  The application is built        *)
(* without concurrent updates, so it handles one update at a time and     *)
(* each handler is one step.  Calls of the Bot API are taken to return.   *)

Users == 1..NumUsers

GROUP_CHAT_ID == "group"

Chats == {GROUP_CHAT_ID, "elsewhere"}

is_authorized_group(chat_id) == chat_id = GROUP_CHAT_ID

\* context.args of an /auth message
AuthArgs ==
    { <<>>,
      << <<"4", "1", "|", "0", "1", "|", "2", "5", "|", "1", "2", "3">> >>,
      << <<"3", "7", "|", "1", "2", "|", "3", "0", "|", "1", "2", "3", "4">> >>,
      << <<"a", "|", "0", "1", "|", "2", "5", "|", "1", "2", "3">> >>,
      << <<"4", "1", "|", "0", "1", "|", "2", "5">> >> }

ButtonData == {"check_all_auths", "other"}

NoReply == [handler |-> "", user |-> 0, data |-> "", kind |-> "",
            found |-> FALSE, card |-> <<>>, report |-> <<>>]

Reply(h, u, d, k, f, c, r) ==
    [handler |-> h, user |-> u, data |-> d, kind |-> k,
     found |-> f, card |-> c, report |-> r]

InitAuth ==
    /\ pc = "idle"
    /\ op = ""
    /\ arg = <<>>
    /\ ret = NoResult
    /\ pending_auth = <<>>
    /\ submitted = [u \in Users |-> <<>>]
    /\ checks = [u \in Users |-> 0]
    /\ reply = NoReply

\* self.pending_auth[user_id] = card_str
dict_set(d, k, v) == [x \in (DOMAIN d) \cup {k} |-> IF x = k THEN v ELSE d[x]]

\* del self.pending_auth[user_id]
dict_del(d, k) == [x \in (DOMAIN d) \ {k} |-> d[x]]

auth(u, chat, args) ==
    IF ~is_authorized_group(chat)
    THEN /\ reply' = Reply("auth", u, "", "access_denied", FALSE, <<>>, <<>>)
         /\ UNCHANGED <<pending_auth, submitted, checks>>
    ELSE IF Len(args) = 0
    THEN /\ reply' = Reply("auth", u, "", "usage", FALSE, <<>>, <<>>)
         /\ UNCHANGED <<pending_auth, submitted, checks>>
    ELSE IF Len(split(args[1], "|")) # 4
    THEN /\ reply' = Reply("auth", u, "", "invalid_format", FALSE, args[1], <<>>)
         /\ UNCHANGED <<pending_auth, submitted, checks>>
    ELSE /\ pending_auth' = dict_set(pending_auth, u, args[1])
         /\ submitted' = [submitted EXCEPT ![u] = args[1]]
         /\ checks' = [checks EXCEPT ![u] = 0]
         /\ reply' = Reply("auth", u, "", "press_button", FALSE, args[1], <<>>)

Auth ==
    /\ \E u \in Users, chat \in Chats, args \in AuthArgs : auth(u, chat, args)
    /\ UNCHANGED <<pc, op, arg, ret>>

\* card_str = self.pending_auth.get(user_id); not card_str
no_card(d, u) == u \notin DOMAIN d \/ d[u] = <<>>

button(u, data, above) ==
    IF data # "check_all_auths"
    THEN /\ reply' = Reply("button", u, data, "answered", FALSE, <<>>, <<>>)
         /\ UNCHANGED <<pending_auth, submitted, checks>>
    ELSE IF no_card(pending_auth, u)
    THEN /\ reply' = Reply("button", u, data, "no_card", FALSE, <<>>, <<>>)
         /\ UNCHANGED <<pending_auth, submitted, checks>>
    ELSE LET card_str == pending_auth[u]
             res      == full_auth_check(card_str, above)
         IN  /\ checks[u] < MaxChecks
             /\ checks' = [checks EXCEPT ![u] = @ + 1]
             /\ UNCHANGED submitted
             /\ IF res.raised
                THEN /\ reply' = Reply("button", u, data, res.exc, TRUE, card_str, <<>>)
                     /\ UNCHANGED pending_auth
                ELSE /\ reply' = Reply("button", u, data, "results", TRUE, card_str,
                                       res.value[1])
                     /\ pending_auth' = dict_del(pending_auth, u)

Button ==
    /\ \E u \in Users, data \in ButtonData, above \in BOOLEAN : button(u, data, above)
    /\ UNCHANGED <<pc, op, arg, ret>>

NextAuth == Auth \/ Button

SpecAuth == InitAuth /\ [][NextAuth]_vars

\* C10: a pending card is checked at most once: a press that finds a pending
\* entry runs the auth check on the card the user most recently stored with
\* /auth, reports it and removes the entry; a press that finds none runs no
\* check and reports that no card was found.
C10_PendingCheckedOnce ==
    /\ \A u \in Users : checks[u] <= 1
    /\ (reply.handler = "button" /\ reply.found) =>
          /\ reply.kind = "results"
          /\ reply.card = submitted[reply.user]
          /\ reply.user \notin DOMAIN pending_auth
    /\ (reply.handler = "button" /\ reply.data = "check_all_auths" /\ ~reply.found) =>
          reply.kind = "no_card"

====
